---- MODULE Spec2Model ----
(***************************************************************************)
(* Model of code/python_dashboard/Dashboard_with_tabs.py: the module-level *)
(* load and normalisation of the grant dataset (lines 11-25) and the Dash  *)
(* callback render_content (lines 74-314).                                 *)
(*                                                                         *)
(* Text read from the CSV file is a sequence of one-character strings, so  *)
(* that parsing (pd.to_numeric) and splitting (str.split) are computed.    *)
(* A numeric cell is [nan, v]: nan is pandas' missing marker NaN.          *)
(* Money is kept in currency units: the division by 1e6 (lines 81, 129,    *)
(* 151, 171, 210) rescales every value alike and is left out, as are the   *)
(* rolling mean of line 98, the date columns of lines 14-16 and the        *)
(* coordinates of nx.spring_layout (line 240).                             *)
(***************************************************************************)
EXTENDS Integers, Sequences, FiniteSets

VARIABLES
    csv,            \* rows of NIH_DravetSyndrome_2014_2024.csv, cells as text
    argsort_ties,   \* what the build's quicksort does with equal values
    pc,             \* "import" before the module body ran, "serving" after
    dravet_data,    \* line 11-21: the loaded, coerced frame
    filtered_data,  \* line 24-25: the normalised dataset
    args,           \* arguments of the last render_content call
    frame,          \* locals of the last render_content call when it ended
    outcome         \* what the caller of the last call got

vars == <<csv, argsort_ties, pc, dravet_data, filtered_data, args, frame, outcome>>

----------------------------------------------------------------------------
(* Bounds of the checked instances *)

MaxRows == 3        \* rows of the datasets of Spec
MaxRawRows == 2     \* rows of the datasets of SpecNormalize
NYears == 9         \* fiscal years of the one-row-per-year datasets
MaxCost == 2        \* Total Cost of a varied row: 1..MaxCost
MaxTokens == 3      \* pieces of a varied co-investigator field

(* Program constants *)

seasonal_periods == 4
HeadIC == 10
HeadActivity == 5
HeadPI == 10
BaseYear == 2014

----------------------------------------------------------------------------
(* Text and numbers *)

NaN == [nan |-> TRUE, v |-> 0]
Num(n) == [nan |-> FALSE, v |-> n]

DigitVal == [c \in {"0","1","2","3","4","5","6","7","8","9"} |->
               CASE c = "0" -> 0 [] c = "1" -> 1 [] c = "2" -> 2 [] c = "3" -> 3
                 [] c = "4" -> 4 [] c = "5" -> 5 [] c = "6" -> 6 [] c = "7" -> 7
                 [] c = "8" -> 8 [] c = "9" -> 9]

DigitChar == <<"0","1","2","3","4","5","6","7","8","9">>

RECURSIVE NatText(_)
\* the decimal text of a natural number, as it stands in the file
NatText(n) ==
    IF n < 10 THEN <<DigitChar[n + 1]>>
    ELSE NatText(n \div 10) \o <<DigitChar[(n % 10) + 1]>>

IntText(n) == IF n < 0 THEN <<"-">> \o NatText(0 - n) ELSE NatText(n)

AllDigits(t) == Len(t) > 0 /\ \A i \in 1..Len(t) : t[i] \in DOMAIN DigitVal

RECURSIVE DigitsValue(_)
DigitsValue(t) ==
    IF t = <<>> THEN 0
    ELSE 10 * DigitsValue(SubSeq(t, 1, Len(t) - 1)) + DigitVal[t[Len(t)]]

IsNumericText(t) ==
    \/ AllDigits(t)
    \/ Len(t) > 1 /\ t[1] = "-" /\ AllDigits(Tail(t))

\* pd.to_numeric(..., errors='coerce') on one cell; an empty cell is NaN
\* already after read_csv
to_numeric(t) ==
    IF AllDigits(t) THEN Num(DigitsValue(t))
    ELSE IF IsNumericText(t) THEN Num(0 - DigitsValue(Tail(t)))
    ELSE NaN

\* character order of Python's str comparison, for the characters in use
CharOrder == <<" ", "-", "0","1","2","3","4","5","6","7","8","9", ";",
               "A", "B", "C", "D", "E", "N">>

CharRank(c) == CHOOSE i \in 1..Len(CharOrder) : CharOrder[i] = c

RECURSIVE TextLess(_, _)
TextLess(a, b) ==
    IF b = <<>> THEN FALSE
    ELSE IF a = <<>> THEN TRUE
    ELSE IF a[1] = b[1] THEN TextLess(Tail(a), Tail(b))
    ELSE CharRank(a[1]) < CharRank(b[1])

\* the category labels in use, in Python's str order
LabelOrder == <<"CA", "F32", "K08", "NICHD", "NINDS", "NY", "Other Types",
                "P01", "R01", "R21", "U54">>

LabelRank(l) == CHOOSE i \in 1..Len(LabelOrder) : LabelOrder[i] = l

----------------------------------------------------------------------------
(* Module body, lines 11-25 *)

Sentinel == <<"1","3","9","1","0","4">>

\* read_csv gives the Type column a numeric dtype when every cell of it is
\* a number or empty, else it keeps the cells as str objects
TypeColumnNumeric(rows) ==
    \A i \in 1..Len(rows) : rows[i].type = <<>> \/ IsNumericText(rows[i].type)

\* lines 11-21: one loaded row; index is the frame's row label
LoadRow(rows, i) ==
    [index    |-> i - 1,
     fy       |-> to_numeric(rows[i].fy),
     cost     |-> to_numeric(rows[i].cost),
     state    |-> rows[i].state,
     ic       |-> rows[i].ic,
     activity |-> rows[i].activity,
     pid      |-> rows[i].pid,
     pi       |-> rows[i].pi,
     others   |-> [missing |-> rows[i].others = <<>>, s |-> rows[i].others],
     type     |-> [str |-> ~TypeColumnNumeric(rows), s |-> rows[i].type]]

LoadFrame(rows) == [i \in 1..Len(rows) |-> LoadRow(rows, i)]

\* a variant of line 24 that keeps positive years only
FiscalYearPositive(r) == ~r.fy.nan /\ r.fy.v > 0

\* line 24: dravet_data['Fiscal Year'] != 0 (NaN != 0 is True)
FiscalYearKept(r) == r.fy.nan \/ r.fy.v # 0

\* line 25: filtered_data['Type'] != '139104' (a number never equals a str)
TypeKept(r) == ~r.type.str \/ r.type.s # Sentinel

Normalize(df) ==
    LET step1 == SelectSeq(df, FiscalYearKept)
    IN  SelectSeq(step1, TypeKept)

Startup ==
    /\ pc = "import"
    /\ pc' = "serving"
    /\ dravet_data' = LoadFrame(csv)
    /\ filtered_data' = Normalize(LoadFrame(csv))
    /\ UNCHANGED <<csv, argsort_ties, args, frame, outcome>>

----------------------------------------------------------------------------
(* pandas operations used by render_content *)

Min2(a, b) == IF a < b THEN a ELSE b

RECURSIVE SumSeq(_)
SumSeq(xs) == IF xs = <<>> THEN 0 ELSE xs[1] + SumSeq(Tail(xs))

\* sum() skips NaN
CostOf(r) == IF r.cost.nan THEN 0 ELSE r.cost.v

PiKeyLess(a, b) ==
    \/ a[1] < b[1]
    \/ a[1] = b[1] /\ TextLess(a[2], b[2])
    \/ a[1] = b[1] /\ a[2] = b[2] /\ LabelRank(a[3]) < LabelRank(b[3])

PiColumns == "Contact PI Person ID, Contact PI / Project Leader, Organization State"

\* the group key of a row under groupby(by)
KeyOf(r, by) ==
    CASE by = "Fiscal Year" -> r.fy.v
      [] by = "Administering IC" -> r.ic
      [] by = "Organization State" -> r.state
      [] by = "Activity" -> r.activity
      [] by = PiColumns -> <<r.pid, r.pi, r.state>>

\* groupby drops the rows whose key is missing
HasKey(r, by) == by = "Fiscal Year" => ~r.fy.nan

\* the order of the group keys: numbers, str, tuples
KeyLess(by, a, b) ==
    CASE by = "Fiscal Year" -> a < b
      [] by = PiColumns -> PiKeyLess(a, b)
      [] OTHER -> LabelRank(a) < LabelRank(b)

\* the keys in ascending order
SortedKeys(S, by) ==
    [p \in 1..Cardinality(S) |->
        CHOOSE k \in S : Cardinality({j \in S : KeyLess(by, j, k)}) = p - 1]

\* df.groupby(by)['Total Cost'].agg(['sum', 'count']): one entry per key
\* value in ascending key order
GroupBy(df, by) ==
    LET Keyed(r) == HasKey(r, by)
        rows == SelectSeq(df, Keyed)
        keys == {KeyOf(rows[i], by) : i \in 1..Len(rows)}
        ordered == SortedKeys(keys, by)
        Counted(r) == ~r.cost.nan
        Entry(k) ==
            LET InGroup(r) == KeyOf(r, by) = k
                group == SelectSeq(rows, InGroup)
            IN  [key   |-> k,
                 value |-> SumSeq([i \in 1..Len(group) |-> CostOf(group[i])]),
                 count |-> Len(SelectSeq(group, Counted))]
    IN  [p \in 1..Len(ordered) |-> Entry(ordered[p])]

\* .sum() alone: the same entries without the count
SumOnly(s) == [i \in 1..Len(s) |-> [key |-> s[i].key, value |-> s[i].value]]

\* sort_values(ascending=False) with the default kind='quicksort': the
\* result is descending by value; where values are equal the order is the
\* one the build's argsort gives, which keeps the entries' order or not
SortValuesDesc(s) ==
    LET n == Len(s)
        Before(j, i) ==
            \/ s[j].value > s[i].value
            \/ /\ s[j].value = s[i].value
               /\ IF argsort_ties = "kept" THEN j < i ELSE j > i
    IN  [p \in 1..n |->
            s[CHOOSE i \in 1..n : Cardinality({j \in 1..n : Before(j, i)}) = p - 1]]

\* .head(n)
HeadN(s, n) == SubSeq(s, 1, Min2(n, Len(s)))

\* .iloc[n:].sum()
TailSum(s, n) == SumSeq([i \in 1..(Len(s) - Min2(n, Len(s))) |-> s[Min2(n, Len(s)) + i].value])

\* series[label] = value: overwrites the entry with that label, appends
\* a new entry when there is none
SetItem(s, label, value) ==
    IF \E i \in 1..Len(s) : s[i].key = label
    THEN [i \in 1..Len(s) |->
             IF s[i].key = label THEN [key |-> label, value |-> value] ELSE s[i]]
    ELSE Append(s, [key |-> label, value |-> value])

----------------------------------------------------------------------------
(* The steps of render_content *)

\* a variant of lines 76-77 with | in place of &
FilterRowsEither(fd, selected_years, selected_states) ==
    LET Selected(r) ==
            \/ ~r.fy.nan /\ r.fy.v \in selected_years
            \/ r.state \in selected_states
    IN  SelectSeq(fd, Selected)

\* lines 76-77
FilterRows(fd, selected_years, selected_states) ==
    LET Selected(r) ==
            /\ ~r.fy.nan
            /\ r.fy.v \in selected_years
            /\ r.state \in selected_states
    IN  SelectSeq(fd, Selected)

\* line 80
FundingTrends(df) == SumOnly(GroupBy(df, "Fiscal Year"))

\* a variant of line 84 that is content with one seasonal cycle
ModelAcceptsOneCycle(series) == Len(series) >= seasonal_periods

\* line 84: ExponentialSmoothing(..., seasonal='add', seasonal_periods=4)
\* computes its initial seasonal terms from two full cycles and raises
\* ValueError when the series is shorter
ModelAccepts(series) == Len(series) >= 2 * seasonal_periods

\* lines 86-95: fit.forecast(1), drawn at the last fiscal year plus one
ForecastTrace(series) ==
    <<[period |-> series[Len(series)].key + 1, steps |-> 1]>>

\* lines 127-128
FundingByIC(df) ==
    HeadN(SortValuesDesc(SumOnly(GroupBy(df, "Administering IC"))), HeadIC)

\* line 150
FundingByState(df) == SumOnly(GroupBy(df, "Organization State"))

\* line 166
ActivityFunding(df) ==
    SortValuesDesc(SumOnly(GroupBy(df, "Activity")))

\* a variant of lines 167-170 that adds 'Other Types' only for a remainder
Top5WithRemainder(activity_funding) ==
    IF Len(activity_funding) <= HeadActivity THEN activity_funding
    ELSE SetItem(HeadN(activity_funding, HeadActivity), "Other Types",
                 TailSum(activity_funding, HeadActivity))

\* lines 167-170
Top5Activities(activity_funding) ==
    SetItem(HeadN(activity_funding, HeadActivity), "Other Types",
            TailSum(activity_funding, HeadActivity))

\* lines 206-208
Top10PIs(df) ==
    HeadN(SortValuesDesc(GroupBy(df, PiColumns)), HeadPI)

Separator == <<";", " ">>

StartsWith(s, sep) == Len(s) >= Len(sep) /\ SubSeq(s, 1, Len(sep)) = sep

RECURSIVE SplitAcc(_, _)
SplitAcc(rest, cur) ==
    IF rest = <<>> THEN <<cur>>
    ELSE IF StartsWith(rest, Separator)
         THEN <<cur>> \o SplitAcc(SubSeq(rest, Len(Separator) + 1, Len(rest)), <<>>)
         ELSE SplitAcc(Tail(rest), Append(cur, rest[1]))

\* line 234: str.split('; ')
Split(s) == SplitAcc(s, <<>>)

\* line 234 on a missing cell (a float NaN) raises AttributeError
GraphRaises(df) == \E i \in 1..Len(df) : df[i].others.missing

\* lines 231-237
\* a variant of lines 234-237 without the test of line 236
RowEdgesUnchecked(r) ==
    LET other_pis == Split(r.others.s)
    IN  {<<r.pi, other_pis[k]>> : k \in 1..Len(other_pis)}

\* lines 234-237: the edges one row adds
RowEdges(r) ==
    LET other_pis == Split(r.others.s)
    IN  {<<r.pi, other_pis[k]>> : k \in {j \in 1..Len(other_pis) : other_pis[j] # <<>>}}

GraphEdges(df) == UNION {RowEdges(df[i]) : i \in 1..Len(df)}

GraphNodes(edges) == {e[1] : e \in edges} \cup {e[2] : e \in edges}

----------------------------------------------------------------------------
(* render_content, lines 74-314 *)

NoFrame ==
    [ended |-> 0, filtered_df |-> <<>>, funding_trends |-> <<>>,
     forecast_trace |-> <<>>, funding_by_ic |-> <<>>, funding_by_state |-> <<>>,
     activity_funding |-> <<>>, top_5_activities |-> <<>>, top_10_pis |-> <<>>,
     edges |-> {}, nodes |-> {}]

NoCall == [status |-> "none", exc |-> "", view |-> [kind |-> "none"]]
Raised(e) == [status |-> "raised", exc |-> e, view |-> [kind |-> "none"]]
Returned(v) == [status |-> "returned", exc |-> "", view |-> v]

\* lines 79-193: the figures of the first tab, built for every tab
ExploratoryFrame(df) ==
    LET funding_trends == FundingTrends(df)
        activity_funding == ActivityFunding(df)
    IN  [NoFrame EXCEPT
            !.filtered_df = df,
            !.funding_trends = funding_trends,
            !.forecast_trace = ForecastTrace(funding_trends),
            !.funding_by_ic = FundingByIC(df),
            !.funding_by_state = FundingByState(df),
            !.activity_funding = activity_funding,
            !.top_5_activities = Top5Activities(activity_funding)]

\* lines 196-201
ExploratoryView(f) ==
    [kind |-> "tab-1",
     fig1 |-> [bars |-> f.funding_trends, forecast |-> f.forecast_trace],
     fig2 |-> f.funding_by_ic,
     fig3 |-> f.funding_by_state,
     fig4 |-> f.top_5_activities]

\* lines 206-312
NetworkView(df) ==
    LET edges == GraphEdges(df)
    IN  [kind |-> "tab-2",
         fig5 |-> Top10PIs(df),
         fig6 |-> [edges |-> edges, nodes |-> GraphNodes(edges)]]

\* the whole call: the locals when it ended, and what the caller got
Render(fd, tab, selected_years, selected_states) ==
    LET df == FilterRows(fd, selected_years, selected_states)
        trends == FundingTrends(df)
    IN  IF ~ModelAccepts(trends)
        THEN [frame |-> [NoFrame EXCEPT !.ended = 84, !.filtered_df = df,
                                        !.funding_trends = trends],
              outcome |-> Raised("ValueError")]
        ELSE LET f == ExploratoryFrame(df)
             IN  IF tab = "tab-1"
                 THEN [frame |-> [f EXCEPT !.ended = 196],
                       outcome |-> Returned(ExploratoryView(f))]
                 ELSE IF tab = "tab-2"
                 THEN IF GraphRaises(df)
                      THEN [frame |-> [f EXCEPT !.ended = 234,
                                                !.top_10_pis = Top10PIs(df)],
                            outcome |-> Raised("AttributeError")]
                      ELSE LET view == NetworkView(df)
                           IN  [frame |-> [f EXCEPT !.ended = 309,
                                                    !.top_10_pis = view.fig5,
                                                    !.edges = view.fig6.edges,
                                                    !.nodes = view.fig6.nodes],
                                outcome |-> Returned(view)]
                 ELSE [frame |-> [f EXCEPT !.ended = 314],
                       outcome |-> Returned([kind |-> "empty"])]

\* a variant of line 76 that assigns the selection to filtered_data
DatasetRebound(fd, df) == df

\* render_content assigns locals only: the module's filtered_data is the
\* same object with the same rows after the call
DatasetAfterCall(fd, df) == fd

render_content(tab, selected_years, selected_states) ==
    /\ pc = "serving"
    /\ args' = [tab |-> tab, years |-> selected_years, states |-> selected_states]
    /\ LET call == Render(filtered_data, tab, selected_years, selected_states)
       IN  frame' = call.frame /\ outcome' = call.outcome
    /\ filtered_data' = DatasetAfterCall(filtered_data,
                            FilterRows(filtered_data, selected_years, selected_states))
    /\ UNCHANGED <<csv, argsort_ties, pc, dravet_data>>

----------------------------------------------------------------------------
(* Datasets and requests of the checked instances *)

Tabs == {"tab-1", "tab-2", "tab-3"}
TieOrders == {"kept", "reversed"}

CsvRow(fy, state, activity, cost, pid, pi, others, type) ==
    [fy |-> fy, state |-> state, ic |-> "NINDS", activity |-> activity,
     cost |-> cost, pid |-> pid, pi |-> pi, others |-> others, type |-> type]

PlainRow(year, state) ==
    CsvRow(IntText(year), state, "R01", <<"1">>, 1, <<"A">>, <<"B">>, <<"5">>)

SeqsUpTo(S, n) == UNION {[1..k -> S] : k \in 0..n}

BeforeImport(rows, ties) ==
    /\ csv = rows
    /\ argsort_ties = ties
    /\ pc = "import"
    /\ dravet_data = <<>>
    /\ filtered_data = <<>>
    /\ args = [tab |-> "", years |-> {}, states |-> {}]
    /\ frame = NoFrame
    /\ outcome = NoCall

(* Spec: up to MaxRows rows over two years and two states; every selection *)

TwoYears == {BaseYear, BaseYear + 1}
TwoStates == {"CA", "NY"}

Init ==
    \E rows \in SeqsUpTo({PlainRow(y, st) : y \in TwoYears, st \in TwoStates}, MaxRows),
       ties \in TieOrders :
        BeforeImport(rows, ties)

Request ==
    \E tab \in Tabs, ys \in SUBSET TwoYears, ss \in SUBSET TwoStates :
        render_content(tab, ys, ss)

Next == Startup \/ Request

Spec == Init /\ [][Next]_vars

(* SpecForecast: one row per fiscal year of a range of years; the request *)
(* selects the years up to some year                                       *)

Years == BaseYear..(BaseYear + NYears - 1)

InitForecast ==
    \E lo \in Years, hi \in Years, ties \in TieOrders :
        BeforeImport([i \in 1..(hi - lo + 1) |-> PlainRow(lo + i - 1, "CA")], ties)

RequestForecast ==
    \E tab \in Tabs, upto \in (BaseYear - 1)..(BaseYear + NYears - 1),
       ss \in {{}, {"CA"}} :
        render_content(tab, BaseYear..upto, ss)

NextForecast == Startup \/ RequestForecast

SpecForecast == InitForecast /\ [][NextForecast]_vars

(* SpecAggregate: one row for each of 2 * seasonal_periods years, R01 and  *)
(* R21 in turn, and for each other activity at most one row, of cost       *)
(* 1..MaxCost                                                              *)

EnoughYears == BaseYear..(BaseYear + 2 * seasonal_periods - 1)

OtherActivities == <<"F32", "K08", "Other Types", "P01", "U54">>

ActivityRow(label, c) ==
    CsvRow(IntText(BaseYear), "CA", label, NatText(c), 1, <<"A">>, <<"B">>, <<"5">>)

RECURSIVE ActivityRows(_, _)
ActivityRows(costs, k) ==
    IF k = 0 THEN <<>>
    ELSE ActivityRows(costs, k - 1) \o
         (IF costs[k] = 0 THEN <<>>
          ELSE <<ActivityRow(OtherActivities[k], costs[k])>>)

YearRows ==
    [i \in 1..(2 * seasonal_periods) |->
        CsvRow(IntText(BaseYear + i - 1), "CA", IF i % 2 = 1 THEN "R01" ELSE "R21",
               <<"1">>, 1, <<"A">>, <<"B">>, <<"5">>)]

InitAggregate ==
    \E costs \in [1..Len(OtherActivities) -> 0..MaxCost], ties \in TieOrders :
        BeforeImport(YearRows \o ActivityRows(costs, Len(OtherActivities)), ties)

RequestAll ==
    \E tab \in Tabs, ys \in {{}, EnoughYears} :
        render_content(tab, ys, {"CA"})

NextAggregate == Startup \/ RequestAll

SpecAggregate == InitAggregate /\ [][NextAggregate]_vars

(* SpecGraph: 2 * seasonal_periods rows; the first names investigator A    *)
(* and a co-investigator field of up to MaxTokens pieces, the second       *)
(* repeats the first and the rest name D with the field "E"                *)

Pieces == {<<>>, <<" ">>, <<"A">>, <<"B">>, <<"C">>, <<"B", ";", "C">>}

RECURSIVE Fields(_)
Fields(n) ==
    IF n = 1 THEN Pieces
    ELSE Fields(n - 1) \cup
         {f \o Separator \o t : f \in Fields(n - 1), t \in Pieces}

GraphRow(i, pid, pi, others) ==
    CsvRow(IntText(BaseYear + i - 1), "CA", "R01", <<"1">>, pid, pi, others, <<"5">>)

InitGraph ==
    \E field \in Fields(MaxTokens), ties \in TieOrders :
        BeforeImport(
            [i \in 1..(2 * seasonal_periods) |->
                IF i <= 2
                THEN GraphRow(i, 1, <<"A">>, field)
                ELSE GraphRow(i, 2, <<"D">>, <<"E">>)],
            ties)

RequestGraph == \E tab \in Tabs : render_content(tab, EnoughYears, {"CA"})

NextGraph == Startup \/ RequestGraph

SpecGraph == InitGraph /\ [][NextGraph]_vars

(* SpecNormalize: up to MaxRawRows rows whose Fiscal Year and Type cells   *)
(* are valid, zero, negative, not a number, or the code 139104             *)

RawYears == {IntText(BaseYear), <<"0">>, <<"-", "1">>, <<"N", "A">>}
RawTypes == {<<"5">>, <<"4", "N">>, Sentinel}

RawRow(fy, type) ==
    CsvRow(fy, "CA", "R01", <<"1">>, 1, <<"A">>, <<"B">>, type)

InitNormalize ==
    \E rows \in SeqsUpTo({RawRow(fy, type) : fy \in RawYears, type \in RawTypes},
                         MaxRawRows),
       ties \in TieOrders :
        BeforeImport(rows, ties)

RequestRaw ==
    \E tab \in Tabs, ys \in {{}, {BaseYear}, {0 - 1, 0, BaseYear}} :
        render_content(tab, ys, {"CA"})

NextNormalize == Startup \/ RequestRaw

SpecNormalize == InitNormalize /\ [][NextNormalize]_vars

----------------------------------------------------------------------------
(* Properties *)

Called == outcome.status # "none"

\* the call got past line 170: the activity breakdown exists
BreakdownBuilt == frame.ended \in {196, 234, 309, 314}

RowsOf(df) == {df[i] : i \in 1..Len(df)}

RECURSIVE SumOver(_, _)
\* the sum of f over a finite set
SumOver(S, f) ==
    IF S = {} THEN 0
    ELSE LET x == CHOOSE y \in S : TRUE IN f[x] + SumOver(S \ {x}, f)

\* the Total Cost of the rows of df with the given activity
ActivityTotal(df, label) ==
    LET rows == {r \in RowsOf(df) : r.activity = label}
    IN  SumOver(rows, [r \in rows |-> CostOf(r)])

ActivitiesOf(df) == {r.activity : r \in RowsOf(df)}

EntryTotal(series) ==
    SumOver(1..Len(series), [i \in 1..Len(series) |-> series[i].value])

\* C1: the entries of the top-5 activity breakdown, 'Other Types' included,
\* add up to the sum of the per-activity cost sums of the filtered records.
C1_BreakdownTotalIsSeriesTotal ==
    BreakdownBuilt =>
        EntryTotal(frame.top_5_activities) =
            SumOver(ActivitiesOf(frame.filtered_df),
                    [a \in ActivitiesOf(frame.filtered_df) |->
                        ActivityTotal(frame.filtered_df, a)])

\* C2 as stated: with at most 5 activity groups the breakdown has no
\* 'Other Types' entry of its own; its entries are the groups of the series.
C2_NoOtherEntryForFewGroups ==
    (BreakdownBuilt /\ Cardinality(ActivitiesOf(frame.filtered_df)) <= 5) =>
        RowsOf(frame.top_5_activities) =
            {[key |-> a, value |-> ActivityTotal(frame.filtered_df, a)] :
                a \in ActivitiesOf(frame.filtered_df)}

\* C2 as amended: with at most 5 activity groups the breakdown has one
\* entry per group and an entry 'Other Types' of value 0, which is there
\* whether or not anything was left over; every other entry carries the
\* cost sum of its group.
C2_OtherEntryOfZeroForFewGroups ==
    (BreakdownBuilt /\ Cardinality(ActivitiesOf(frame.filtered_df)) <= 5) =>
        LET top == frame.top_5_activities
            groups == ActivitiesOf(frame.filtered_df)
        IN  /\ {top[i].key : i \in 1..Len(top)} = groups \cup {"Other Types"}
            /\ Len(top) = Cardinality(groups \cup {"Other Types"})
            /\ \A i \in 1..Len(top) :
                  top[i].value = IF top[i].key = "Other Types" THEN 0
                                 ELSE ActivityTotal(frame.filtered_df, top[i].key)

C2_FewGroupsSeen ==
    /\ BreakdownBuilt
    /\ Cardinality(ActivitiesOf(frame.filtered_df)) = 3
    /\ "Other Types" \notin ActivitiesOf(frame.filtered_df)
    /\ Len(frame.top_5_activities) = 4

PeriodsOf(df) == {r.fy.v : r \in {x \in RowsOf(df) : ~x.fy.nan}}

\* C3: with fewer than 8 fiscal years among the filtered records the call
\* ends in the forecast step's error and no forecast point exists; with 8
\* or more there is exactly one forecast point, at the largest year plus 1.
C3_ForecastOrInsufficientHistory ==
    Called =>
        LET periods == PeriodsOf(frame.filtered_df)
        IN  IF Cardinality(periods) < 8
            THEN /\ outcome.status = "raised"
                 /\ outcome.exc = "ValueError"
                 /\ frame.forecast_trace = <<>>
            ELSE /\ Len(frame.forecast_trace) = 1
                 /\ frame.forecast_trace[1].steps = 1
                 /\ \A y \in periods : y < frame.forecast_trace[1].period
                 /\ frame.forecast_trace[1].period - 1 \in periods

C3_ForecastSeen ==
    /\ Called
    /\ Cardinality(PeriodsOf(frame.filtered_df)) = 8
    /\ Len(filtered_data) > 8
    /\ Len(frame.forecast_trace) = 1

\* s has the separator '; ' at position p
SeparatorAt(s, p) == p >= 1 /\ p + 1 <= Len(s) /\ s[p] = ";" /\ s[p + 1] = " "

\* the pieces of s between occurrences of '; ', the ends of s included
PiecesBetween(s) ==
    {SubSeq(s, a, b) : <<a, b>> \in
        {ab \in (1..(Len(s) + 1)) \X (0..Len(s)) :
            /\ ab[2] >= ab[1] - 1
            /\ ab[1] = 1 \/ SeparatorAt(s, ab[1] - 2)
            /\ ab[2] = Len(s) \/ SeparatorAt(s, ab[2] + 1)
            /\ \A p \in ab[1]..(ab[2] - 1) : ~SeparatorAt(s, p)}}

\* C4 as amended: when the graph is built its edges are the pairs (primary
\* investigator, t) with t a non-empty piece of the co-investigator field
\* cut at each exact occurrence of '; ' and not trimmed: the same pair from
\* several records is one edge, a pair with t the primary name is kept, and
\* the nodes are the ends of the edges.
C4_EdgesAreUntrimmedPieces ==
    frame.ended = 309 =>
        /\ frame.edges =
              UNION {{<<r.pi, t>> : t \in PiecesBetween(r.others.s) \ {<<>>}} :
                        r \in RowsOf(frame.filtered_df)}
        /\ frame.nodes = {e[1] : e \in frame.edges} \cup {e[2] : e \in frame.edges}

IsBlank(c) == c = " "

RECURSIVE Trim(_)
\* t without its leading and trailing blanks
Trim(t) ==
    IF t = <<>> THEN t
    ELSE IF IsBlank(t[1]) THEN Trim(Tail(t))
    ELSE IF IsBlank(t[Len(t)]) THEN Trim(SubSeq(t, 1, Len(t) - 1))
    ELSE t

\* the tokens of s between semicolons
TokensBetween(s) ==
    {SubSeq(s, a, b) : <<a, b>> \in
        {ab \in (1..(Len(s) + 1)) \X (0..Len(s)) :
            /\ ab[2] >= ab[1] - 1
            /\ ab[1] = 1 \/ s[ab[1] - 1] = ";"
            /\ ab[2] = Len(s) \/ s[ab[2] + 1] = ";"
            /\ \A p \in ab[1]..ab[2] : s[p] # ";"}}

\* C4 as stated: the edges are the pairs (primary investigator, t) with t a
\* token of the semicolon-separated field that is non-empty after trimming.
C4_EdgesAreTrimmedTokens ==
    frame.ended = 309 =>
        frame.edges =
            UNION {{<<r.pi, Trim(t)>> : t \in {u \in TokensBetween(r.others.s) :
                                                  Trim(u) # <<>>}} :
                      r \in RowsOf(frame.filtered_df)}

\* the field "B; ; C" of investigator A, in two records
C4_ScenarioSeen ==
    /\ frame.ended = 309
    /\ \E r \in RowsOf(frame.filtered_df) :
          r.pi = <<"A">> /\ r.others.s = <<"B", ";", " ", ";", " ", "C">>
    /\ frame.edges = {<< <<"A">>, <<"B">> >>, << <<"A">>, <<"C">> >>,
                      << <<"D">>, <<"E">> >>}

Matches(r) == ~r.fy.nan /\ r.fy.v \in args.years /\ r.state \in args.states

\* C5: the filtered records are the records of the normalised dataset
\* whose fiscal year is selected and whose state is selected, each once and
\* in the dataset's order.
C5_FilterIsOrderedSelection ==
    Called =>
        LET df == frame.filtered_df
        IN  /\ RowsOf(df) = {r \in RowsOf(filtered_data) : Matches(r)}
            /\ \A i \in 1..Len(df), k \in 1..Len(df) :
                  i < k => df[i].index < df[k].index

C5_SelectionSeen ==
    /\ Called
    /\ Len(filtered_data) = 3
    /\ Len(frame.filtered_df) = 2
    /\ ~Matches(filtered_data[2])
    /\ args.years # TwoYears
    /\ args.states # TwoStates

\* the text of a fiscal year that is the number 0
ZeroText(t) ==
    \/ Len(t) >= 1 /\ \A i \in 1..Len(t) : t[i] = "0"
    \/ Len(t) >= 2 /\ t[1] = "-" /\ \A i \in 2..Len(t) : t[i] = "0"

\* the Type cells were read as str: one of them is no number
TypeReadAsText == \E i \in 1..Len(csv) : csv[i].type # <<>> /\ ~IsNumericText(csv[i].type)

KeptRows ==
    {i \in 1..Len(csv) :
        /\ ~ZeroText(csv[i].fy)
        /\ ~(TypeReadAsText /\ csv[i].type = Sentinel)}

\* C6 as amended: the rows of the file that reach filtered_data, and so
\* any view, are those whose fiscal year is not the number 0 and whose
\* Type, in a column read as text, is not '139104', in the file's order; a
\* negative or missing fiscal year is kept, and so is 139104 in a Type
\* column read as numbers.
C6_DropsZeroYearAndSentinelText ==
    pc = "serving" =>
        /\ {r.index + 1 : r \in RowsOf(filtered_data)} = KeptRows
        /\ Len(filtered_data) = Cardinality(KeptRows)
        /\ \A i \in 1..Len(filtered_data), k \in 1..Len(filtered_data) :
              i < k => filtered_data[i].index < filtered_data[k].index
        /\ RowsOf(frame.filtered_df) \subseteq RowsOf(filtered_data)

\* C6 as stated: every record of filtered_data and of a filtered subset has
\* a fiscal year above 0 and a Type other than the code 139104.
C6_OnlyPositiveYearsAndNoSentinel ==
    pc = "serving" =>
        \A r \in RowsOf(filtered_data) \cup RowsOf(frame.filtered_df) :
            ~r.fy.nan /\ r.fy.v > 0 /\ r.type.s # Sentinel

C6_NegativeYearKeptZeroDropped ==
    /\ pc = "serving"
    /\ Len(csv) = 2
    /\ csv[1].fy = <<"0">>
    /\ csv[2].type = <<"4", "N">>
    /\ Len(filtered_data) = 1
    /\ filtered_data[1].fy = Num(0 - 1)
    /\ Len(frame.filtered_df) = 1

\* C7: a call whose selection leaves no record returns a view.
C7_EmptySelectionReturnsView ==
    (Called /\ frame.filtered_df = <<>>) => outcome.status = "returned"

\* C8: a request for the network view whose own steps can run is answered
\* with that view of the filtered records, whatever the steps of the other
\* view do.
C8_NetworkViewOnItsOwn ==
    (Called /\ args.tab = "tab-2" /\ ~GraphRaises(frame.filtered_df)) =>
        outcome = Returned(NetworkView(frame.filtered_df))

\* C9: calls leave the loaded and the normalised dataset as the module body
\* made them, so the answer to a call is the answer its arguments get on
\* the dataset as first normalised, whatever was called before.
C9_DatasetUnchangedByCalls ==
    pc = "serving" =>
        /\ dravet_data = LoadFrame(csv)
        /\ filtered_data = Normalize(LoadFrame(csv))
        /\ Called =>
              outcome = Render(Normalize(LoadFrame(csv)), args.tab, args.years,
                               args.states).outcome

C9_CallsSeen ==
    /\ pc = "serving"
    /\ outcome.status = "returned"
    /\ Len(filtered_data) = 9
    /\ Len(frame.filtered_df) = 8

\* C10: in the descending order of the activity sums, groups of equal sum
\* stand in the order of the aggregation's groups.
C10_TiesKeepGroupOrder ==
    BreakdownBuilt =>
        LET sorted == frame.activity_funding
        IN  \A i \in 1..Len(sorted), k \in 1..Len(sorted) :
                (i < k /\ sorted[i].value = sorted[k].value) =>
                    LabelRank(sorted[i].key) < LabelRank(sorted[k].key)

====
